---- MODULE Spec2Model ----
(***************************************************************************)
(* Model of notebooks/nb_utils.py: the notebook helpers load_model,        *)
(* get_test_data_loader, apply_model, compute_metrics and draw_sample.     *)
(* Each helper has its own group of variables and its own specification;   *)
(* the groups of the other helpers stay idle.                              *)
(***************************************************************************)
EXTENDS Integers, Sequences, FiniteSets, TLC

VARIABLES
    \* load_model
    config_model,   \* config['model'], the caller's mapping (shared object)
    config_pre,     \* config['model'] as it was before the latest call
    lm_calls,       \* one record per load_model call, oldest first
    \* get_test_data_loader
    ds_len,         \* len(full_dataset)
    n_test,         \* the n_test argument
    dl_pc,          \* "init", "iterating", "exhausted", "raised"
    test_indices,   \* the indices handed to Subset
    dl_batches,     \* the batches the DataLoader has yielded so far
    \* apply_model
    grad_enabled,   \* torch's global gradient-tracking mode
    grad_prev,      \* the mode saved by the no_grad() guard
    grad_at_call,   \* the mode immediately before the call
    ap_pc,          \* "idle", "loop", "returned", "raised"
    ap_loader,      \* the batches the data loader yields
    ap_preds,
    ap_targets,
    ap_fwd_grad,    \* the mode seen by each forward pass
    \* compute_metrics
    m_item_ndim,    \* dimensions of each list item: 1 (an array), 0 (a bare number)
    m_preds,
    m_targets,
    m_threshold,
    m_pc,           \* "idle", "returned", "raised"
    m_result,
    \* draw_sample
    Ri,
    Ro,
    y,
    alpha_labels,
    dr_pc,          \* "idle", "returned", "raised"
    dr_out

lmVars == <<config_model, config_pre, lm_calls>>
dlVars == <<ds_len, n_test, dl_pc, test_indices, dl_batches>>
apVars == <<grad_enabled, grad_prev, grad_at_call, ap_pc, ap_loader,
            ap_preds, ap_targets, ap_fwd_grad>>
mVars == <<m_item_ndim, m_preds, m_targets, m_threshold, m_pc, m_result>>
drVars == <<Ri, Ro, y, alpha_labels, dr_pc, dr_out>>
vars == <<lmVars, dlVars, apVars, mVars, drVars>>

Range(s) == {s[i] : i \in DOMAIN s}

Min(a, b) == IF a <= b THEN a ELSE b

\* The sequence f with every element evaluated (a tuple, not a lazy function)
Arr(f) == f \o <<>>

\* Sequences over S of length lo..hi
SeqsOf(S, lo, hi) == UNION {[1..n -> S] : n \in lo..hi}

----------------------------------------------------------------------------
(* load_model                                                              *)

MaxCalls == 2

TrainingKeys == {"optimizer", "learning_rate", "loss_func", "lr_scaling",
                 "lr_warmup_epochs"}
OtherKeys == {"name", "hidden_dim"}
OtherVals == {1, 2}
TrainingVals == {1}
Epochs == {0, 7}

\* The mappings config['model'] can hold: any subset of the keys present.
ModelConfigs ==
    UNION {[ks -> OtherVals \cup TrainingVals] : ks \in SUBSET (TrainingKeys \cup OtherKeys)}

ValidModelConfig(mc) ==
    \A k \in DOMAIN mc : IF k \in TrainingKeys THEN mc[k] \in TrainingVals
                                               ELSE mc[k] \in OtherVals

\* dict.pop(key, None): removes the key when present, nothing otherwise
Pop(mc, key) == [k \in (DOMAIN mc) \ {key} |-> mc[k]]

PopsMissingWarmup(mc) ==
    Pop(Pop(Pop(Pop(mc, "optimizer"), "learning_rate"), "loss_func"), "lr_scaling")

\* the five pops of load_model, in the code's order
ModelConfigAfterPops(mc) ==
    Pop(Pop(Pop(Pop(Pop(mc, "optimizer"), "learning_rate"), "loss_func"),
            "lr_scaling"), "lr_warmup_epochs")

KwargsBeforePops(mc) == mc

\* get_model(**model_config): the keyword arguments are the mapping as it
\* is once the pops have run
GetModelKwargs(mc) == ModelConfigAfterPops(mc)

InitLoadModel ==
    /\ config_model \in {mc \in ModelConfigs : ValidModelConfig(mc)}
    /\ config_pre = config_model
    /\ lm_calls = <<>>

IdleLoadModel ==
    /\ config_model = <<>>
    /\ config_pre = <<>>
    /\ lm_calls = <<>>

\* One call load_model(config, reload_epoch). model_config aliases
\* config['model'], so the pops act on the caller's mapping. torch.load raises
\* when the checkpoint file of that epoch is missing.
LoadModel(reload_epoch, checkpoint_exists) ==
    /\ Len(lm_calls) < MaxCalls
    /\ config_pre' = config_model
    /\ config_model' = ModelConfigAfterPops(config_model)
    /\ lm_calls' = Append(lm_calls,
            [config_in |-> config_model,
             kwargs |-> GetModelKwargs(config_model),
             epoch |-> reload_epoch,
             outcome |-> IF checkpoint_exists THEN "returned" ELSE "raised"])
    /\ UNCHANGED <<dlVars, apVars, mVars, drVars>>

NextLoadModel ==
    \E e \in Epochs, ex \in BOOLEAN : LoadModel(e, ex)

----------------------------------------------------------------------------
(* get_test_data_loader                                                    *)

MaxLen == 18
MaxNTest == 4
DefaultNTest == 16
BatchSize == 1

\* torch.arange(n): 0, 1, ..., n-1
Arange(n) == [i \in 1..n |-> i - 1]

TestIndicesOffByOne(len, n) == [i \in 1..n |-> len - Arange(n)[i]]

\* len(full_dataset) - 1 - torch.arange(n_test)
TestIndices(len, n) == [i \in 1..n |-> len - 1 - Arange(n)[i]]

\* DataLoader(test_dataset, batch_size=1): the default sequential sampler walks
\* positions 0, 1, ... of the Subset, batch_size positions per batch; Subset
\* position p is dataset index indices[p]. Batch k (from 1) of a loader:
NumBatches(indices) == (Len(indices) + BatchSize - 1) \div BatchSize

LoaderBatch(indices, k) ==
    SubSeq(indices, (k - 1) * BatchSize + 1, Min(k * BatchSize, Len(indices)))

InitLoader ==
    /\ ds_len \in 0..MaxLen
    /\ n_test \in (0..MaxNTest) \cup {DefaultNTest}
    /\ dl_pc = "init"
    /\ test_indices = <<>>
    /\ dl_batches = <<>>

IdleLoader ==
    /\ ds_len = 0
    /\ n_test = 0
    /\ dl_pc = "idle"
    /\ test_indices = <<>>
    /\ dl_batches = <<>>

GetTestDataLoader ==
    /\ dl_pc = "init"
    /\ test_indices' = TestIndices(ds_len, n_test)
    /\ dl_pc' = "iterating"
    /\ UNCHANGED <<ds_len, n_test, dl_batches>>
    /\ UNCHANGED <<lmVars, apVars, mVars, drVars>>

\* full_dataset[i] can be served: i is in range, or negative and within the
\* wrap-around of Python sequence indexing
Servable(len, i) == -len <= i /\ i < len

\* next(iter(loader)): one more batch, of the examples at the batch's indices
LoaderNext ==
    /\ dl_pc = "iterating"
    /\ Len(dl_batches) < NumBatches(test_indices)
    /\ LET batch == LoaderBatch(test_indices, Len(dl_batches) + 1) IN
        /\ \A k \in 1..Len(batch) : Servable(ds_len, batch[k])
        /\ dl_batches' = Append(dl_batches, batch)
    /\ UNCHANGED <<ds_len, n_test, dl_pc, test_indices>>
    /\ UNCHANGED <<lmVars, apVars, mVars, drVars>>

\* next(iter(loader)) raises: the dataset may refuse an index outside
\* 0..len-1 (IndexError)
LoaderRaises ==
    /\ dl_pc = "iterating"
    /\ Len(dl_batches) < NumBatches(test_indices)
    /\ LET batch == LoaderBatch(test_indices, Len(dl_batches) + 1) IN
        \E k \in 1..Len(batch) : batch[k] \notin 0..(ds_len - 1)
    /\ dl_pc' = "raised"
    /\ UNCHANGED <<ds_len, n_test, test_indices, dl_batches>>
    /\ UNCHANGED <<lmVars, apVars, mVars, drVars>>

\* StopIteration
LoaderExhausted ==
    /\ dl_pc = "iterating"
    /\ Len(dl_batches) = NumBatches(test_indices)
    /\ dl_pc' = "exhausted"
    /\ UNCHANGED <<ds_len, n_test, test_indices, dl_batches>>
    /\ UNCHANGED <<lmVars, apVars, mVars, drVars>>

NextLoader == GetTestDataLoader \/ LoaderNext \/ LoaderRaises \/ LoaderExhausted

----------------------------------------------------------------------------
(* apply_model                                                             *)

MaxBatches == 3

\* A batched tensor is the sequence of its rows along dimension 0.
BatchInputs == {<<1>>, <<2>>, <<1, 2>>}
BatchTargets(inputs) == IF Len(inputs) = 1 THEN {<<0>>, <<1>>} ELSE {<<0, 1>>}
LoaderItems == {b \in [inputs : BatchInputs, target : {<<0>>, <<1>>, <<0, 1>>}] :
                    b.target \in BatchTargets(b.inputs)}

\* The network: one output row per input row (an external collaborator; any
\* function that is not the identity serves).
Model(inputs) == [i \in 1..Len(inputs) |-> 10 * inputs[i] + 5]

\* tensor.squeeze(0): drops dimension 0 when its size is 1, else a no-op
Squeeze0(t) == IF Len(t) = 1 THEN t[1] ELSE t

PrependTo(list, x) == <<x>> \o list

\* list.append
ListAppend(list, x) == Append(list, x)

ExitAlwaysEnables(prev) == TRUE

\* torch.no_grad().__exit__: torch.set_grad_enabled(self.prev)
NoGradExit(prev) == prev

InitApply ==
    /\ grad_enabled \in BOOLEAN
    /\ grad_prev = grad_enabled
    /\ grad_at_call = grad_enabled
    /\ ap_pc = "idle"
    /\ ap_loader \in SeqsOf(LoaderItems, 0, MaxBatches)
    /\ ap_preds = <<>>
    /\ ap_targets = <<>>
    /\ ap_fwd_grad = <<>>

IdleApply ==
    /\ grad_enabled = TRUE
    /\ grad_prev = TRUE
    /\ grad_at_call = TRUE
    /\ ap_pc = "off"
    /\ ap_loader = <<>>
    /\ ap_preds = <<>>
    /\ ap_targets = <<>>
    /\ ap_fwd_grad = <<>>

\* The call enters the @torch.no_grad() guard, then preds, targets = [], []
ApplyCall ==
    /\ ap_pc = "idle"
    /\ grad_at_call' = grad_enabled
    /\ grad_prev' = grad_enabled
    /\ grad_enabled' = FALSE
    /\ ap_preds' = <<>>
    /\ ap_targets' = <<>>
    /\ ap_pc' = "loop"
    /\ UNCHANGED <<ap_loader, ap_fwd_grad>>
    /\ UNCHANGED <<lmVars, dlVars, mVars, drVars>>

\* One iteration of the for loop on the next (inputs, target) batch
ApplyStep ==
    /\ ap_pc = "loop"
    /\ Len(ap_preds) < Len(ap_loader)
    /\ LET b == ap_loader[Len(ap_preds) + 1] IN
        /\ ap_fwd_grad' = Append(ap_fwd_grad, grad_enabled)
        /\ ap_preds' = ListAppend(ap_preds, Squeeze0(Model(b.inputs)))
        /\ ap_targets' = ListAppend(ap_targets, Squeeze0(b.target))
    /\ UNCHANGED <<grad_enabled, grad_prev, grad_at_call, ap_pc, ap_loader>>
    /\ UNCHANGED <<lmVars, dlVars, mVars, drVars>>

\* The forward pass (or the loader) raises: the exception leaves through the
\* guard
ApplyRaise ==
    /\ ap_pc = "loop"
    /\ Len(ap_preds) < Len(ap_loader)
    /\ ap_fwd_grad' = Append(ap_fwd_grad, grad_enabled)
    /\ grad_enabled' = NoGradExit(grad_prev)
    /\ ap_pc' = "raised"
    /\ UNCHANGED <<grad_prev, grad_at_call, ap_loader, ap_preds, ap_targets>>
    /\ UNCHANGED <<lmVars, dlVars, mVars, drVars>>

\* The loader is exhausted: return preds, targets through the guard
ApplyReturn ==
    /\ ap_pc = "loop"
    /\ Len(ap_preds) = Len(ap_loader)
    /\ grad_enabled' = NoGradExit(grad_prev)
    /\ ap_pc' = "returned"
    /\ UNCHANGED <<grad_prev, grad_at_call, ap_loader, ap_preds, ap_targets, ap_fwd_grad>>
    /\ UNCHANGED <<lmVars, dlVars, mVars, drVars>>

NextApply == ApplyCall \/ ApplyStep \/ ApplyRaise \/ ApplyReturn

----------------------------------------------------------------------------
(* compute_metrics                                                         *)

MaxElems == 3

\* Scores, targets and thresholds in tenths: 9 is 0.9. A ratio a/b is the
\* pair <<a, b>>, not reduced; b = 0 is numpy's nan.
Scores == {1, 4, 9}
Targets == {0, 10}
Thresholds == {3, 5, 10}

RECURSIVE Concatenate(_)
\* np.concatenate on a list of 1-d arrays
Concatenate(batches) ==
    IF Len(batches) = 0 THEN <<>> ELSE Head(batches) \o Concatenate(Tail(batches))

FirstBatchOnly(batches) == Head(batches)

\* the flat arrays compute_metrics works on
FlatArray(batches) == Concatenate(batches)

\* arr > threshold, elementwise
Greater(arr, t) == Arr([i \in DOMAIN arr |-> arr[i] > t])

CountTrue(b) == Cardinality({i \in DOMAIN b : b[i]})

\* sklearn.metrics.accuracy_score: the share of equal labels
accuracy_score(y_true, y_pred) ==
    <<Cardinality({i \in DOMAIN y_true : y_true[i] = y_pred[i]}), Len(y_true)>>

\* sklearn.metrics.precision_score: tp / (tp + fp), 0 when nothing is
\* predicted positive
precision_score(y_true, y_pred) ==
    LET tp == Cardinality({i \in DOMAIN y_true : y_true[i] /\ y_pred[i]})
        pp == CountTrue(y_pred)
    IN  IF pp = 0 THEN <<0, 1>> ELSE <<tp, pp>>

\* sklearn.metrics.recall_score: tp / (tp + fn), 0 when nothing is positive
recall_score(y_true, y_pred) ==
    LET tp == Cardinality({i \in DOMAIN y_true : y_true[i] /\ y_pred[i]})
        ap == CountTrue(y_true)
    IN  IF ap = 0 THEN <<0, 1>> ELSE <<tp, ap>>

Reverse(s) == Arr([i \in 1..Len(s) |-> s[Len(s) + 1 - i]])

\* one step of a stable ascending sort of indices by score
InsertStable(sorted, idx, score) ==
    LET pos == Cardinality({k \in DOMAIN sorted : score[sorted[k]] <= score[idx]})
    IN  SubSeq(sorted, 1, pos) \o <<idx>> \o SubSeq(sorted, pos + 1, Len(sorted))

RECURSIVE ArgsortUpTo(_, _)
ArgsortUpTo(score, n) ==
    IF n = 0 THEN <<>> ELSE InsertStable(ArgsortUpTo(score, n - 1), n, score)

\* np.argsort(score, kind="mergesort"): stable, ascending
Argsort(score) == ArgsortUpTo(score, Len(score))

RECURSIVE CumSum(_, _)
\* np.cumsum(s)[k]
CumSum(s, k) == IF k = 0 THEN 0 ELSE CumSum(s, k - 1) + s[k]

RECURSIVE SortedSeq(_)
\* the members of a set of integers, ascending
SortedSeq(S) ==
    IF S = {} THEN <<>>
    ELSE LET m == CHOOSE x \in S : \A z \in S : x <= z
         IN  <<m>> \o SortedSeq(S \ {m})

\* np.where(np.diff(y_score))[0] with the last index appended: the last
\* position of every run of equal scores
ThresholdIdxs(ys) ==
    {k \in 1..(Len(ys) - 1) : ys[k] # ys[k + 1]} \cup {Len(ys)}

\* sklearn.metrics._binary_clf_curve: false and true positives at every
\* distinct score, scores descending
binary_clf_curve(y_true, y_score) ==
    LET order == Reverse(Argsort(y_score))
        ys == Arr([k \in 1..Len(order) |-> y_score[order[k]]])
        yt == Arr([k \in 1..Len(order) |-> IF y_true[order[k]] THEN 1 ELSE 0])
        idxs == SortedSeq(ThresholdIdxs(ys))
        tps == Arr([k \in 1..Len(idxs) |-> CumSum(yt, idxs[k])])
    IN  [tps |-> tps,
         fps |-> Arr([k \in 1..Len(idxs) |-> idxs[k] - tps[k]]),
         thresholds |-> Arr([k \in 1..Len(idxs) |-> ys[idxs[k]]])]

\* keep[k] of roc_curve's drop_intermediate: the ends, and every point where
\* the second difference of fps or of tps is not zero
RocKeep(c) ==
    LET n == Len(c.fps)
    IN  IF n <= 2 THEN 1..n
        ELSE {k \in 1..n :
                \/ k = 1
                \/ k = n
                \/ c.fps[k + 1] - 2 * c.fps[k] + c.fps[k - 1] # 0
                \/ c.tps[k + 1] - 2 * c.tps[k] + c.tps[k - 1] # 0}

\* sklearn.metrics.roc_curve(y_true, y_score): a (0, 0) point is put in front,
\* at threshold max score + 1
roc_curve(y_true, y_score) ==
    LET c == binary_clf_curve(y_true, y_score)
        keep == SortedSeq(RocKeep(c))
        tps == <<0>> \o [k \in 1..Len(keep) |-> c.tps[keep[k]]]
        fps == <<0>> \o [k \in 1..Len(keep) |-> c.fps[keep[k]]]
        thr == <<c.thresholds[1] + 10>> \o [k \in 1..Len(keep) |-> c.thresholds[keep[k]]]
        n == Len(tps)
    IN  [fpr |-> Arr([k \in 1..n |-> <<fps[k], fps[n]>>]),
         tpr |-> Arr([k \in 1..n |-> <<tps[k], tps[n]>>]),
         thresholds |-> thr]

RECURSIVE TrapzNum(_, _, _)
\* twice the trapezoid sum of the numerators over the first k points
TrapzNum(x, yy, k) ==
    IF k <= 1 THEN 0
    ELSE TrapzNum(x, yy, k - 1)
         + (x[k][1] - x[k - 1][1]) * (yy[k][1] + yy[k - 1][1])

\* sklearn.metrics.auc(x, y): np.trapz(y, x); x is non-decreasing here
auc(x, yy) == <<TrapzNum(x, yy, Len(x)), 2 * x[1][2] * yy[1][2]>>

\* sklearn.metrics.precision_recall_curve(y_true, probas_pred): the curve is
\* cut at the first threshold of full recall, reversed, and (1, 0) is appended
precision_recall_curve(y_true, y_score) ==
    LET c == binary_clf_curve(y_true, y_score)
        n == Len(c.tps)
        last == CHOOSE k \in 1..n :
                    /\ c.tps[k] >= c.tps[n]
                    /\ \A j \in 1..(k - 1) : c.tps[j] < c.tps[n]
        prec == Arr([k \in 1..last |-> <<c.tps[k], c.tps[k] + c.fps[k]>>])
        rec == Arr([k \in 1..last |-> <<c.tps[k], c.tps[n]>>])
    IN  [precision |-> Reverse(prec) \o << <<1, 1>> >>,
         recall |-> Reverse(rec) \o << <<0, 1>> >>,
         thresholds |-> Reverse(SubSeq(c.thresholds, 1, last))]

CurveScoresThresholded(preds, y_pred) ==
    Arr([i \in DOMAIN y_pred |-> IF y_pred[i] THEN 1 ELSE 0])

\* the scores handed to precision_recall_curve and roc_curve: the continuous
\* preds, not the thresholded y_pred
CurveScores(preds, y_pred) == preds

PredLabelsFlipped(preds, threshold) == Arr([i \in DOMAIN preds |-> preds[i] < threshold])

\* y_pred = (preds > threshold)
PredLabels(preds, threshold) == Greater(preds, threshold)

\* compute_metrics(preds, targets, threshold) for a non-empty list of batches
Metrics(preds_batches, targets_batches, threshold) ==
    LET preds == FlatArray(preds_batches)
        targets == FlatArray(targets_batches)
        y_pred == PredLabels(preds, threshold)
        y_true == Greater(targets, threshold)
        scores == CurveScores(preds, y_pred)
        prc == precision_recall_curve(y_true, scores)
        roc == roc_curve(y_true, scores)
    IN  [accuracy |-> accuracy_score(y_true, y_pred),
         precision |-> precision_score(y_true, y_pred),
         recall |-> recall_score(y_true, y_pred),
         prc_precision |-> prc.precision,
         prc_recall |-> prc.recall,
         prc_thresh |-> prc.thresholds,
         roc_fpr |-> roc.fpr,
         roc_tpr |-> roc.tpr,
         roc_thresh |-> roc.thresholds,
         roc_auc |-> auc(roc.fpr, roc.tpr)]

RECURSIVE BatchLists(_, _)
\* the lists of non-empty batches over S holding n values in all
BatchLists(S, n) ==
    IF n = 0 THEN {<<>>}
    ELSE UNION {{<<b>> \o rest : b \in [1..k -> S], rest \in BatchLists(S, n - k)} :
                    k \in 1..n}

MetricInputs == UNION {BatchLists(Scores \X Targets, n) : n \in 0..MaxElems}

\* preds and targets are parallel: lists of arrays of the same shapes, or
\* lists of bare numbers of the same length
InitMetrics ==
    /\ \/ /\ m_item_ndim = 1
          /\ \E pairs \in MetricInputs :
                /\ m_preds = [b \in DOMAIN pairs |-> [i \in DOMAIN pairs[b] |-> pairs[b][i][1]]]
                /\ m_targets = [b \in DOMAIN pairs |-> [i \in DOMAIN pairs[b] |-> pairs[b][i][2]]]
       \/ /\ m_item_ndim = 0
          /\ \E pairs \in SeqsOf(Scores \X Targets, 1, MaxElems) :
                /\ m_preds = [i \in DOMAIN pairs |-> pairs[i][1]]
                /\ m_targets = [i \in DOMAIN pairs |-> pairs[i][2]]
    /\ m_threshold \in Thresholds
    /\ m_pc = "idle"
    /\ m_result = <<>>

IdleMetrics ==
    /\ m_item_ndim = 1
    /\ m_preds = <<>>
    /\ m_targets = <<>>
    /\ m_threshold = 0
    /\ m_pc = "off"
    /\ m_result = <<>>

\* np.concatenate raises ValueError on an empty list, and on a list of
\* zero-dimensional items ("zero-dimensional arrays cannot be concatenated")
ConcatenateRaises(batches, ndim) == Len(batches) = 0 \/ ndim = 0

ComputeMetricsRaises ==
    /\ m_pc = "idle"
    /\ ConcatenateRaises(m_preds, m_item_ndim)
    /\ m_pc' = "raised"
    /\ UNCHANGED <<m_item_ndim, m_preds, m_targets, m_threshold, m_result>>
    /\ UNCHANGED <<lmVars, dlVars, apVars, drVars>>

ComputeMetrics ==
    /\ m_pc = "idle"
    /\ ~ConcatenateRaises(m_preds, m_item_ndim)
    /\ m_result' = Metrics(m_preds, m_targets, m_threshold)
    /\ m_pc' = "returned"
    /\ UNCHANGED <<m_item_ndim, m_preds, m_targets, m_threshold>>
    /\ UNCHANGED <<lmVars, dlVars, apVars, drVars>>

NextMetrics == ComputeMetrics \/ ComputeMetricsRaises

----------------------------------------------------------------------------
(* draw_sample                                                             *)

MaxEdges == 2

Hits == {1, 2}
Labels == {0, 10}

\* The hit table X: one row (r, phi, z) per hit, all coordinates distinct.
X == [h \in Hits |-> <<10 * h + 1, 10 * h + 2, 10 * h + 3>>]

\* A matrix is its shape and its entries; rows and columns count from 1.
Matrices(rows, cols) ==
    {[nr |-> Cardinality(rows), nc |-> Cardinality(cols), v |-> f] :
        f \in [rows \X cols -> {0, 1}]}

\* M.T
Transpose(M) ==
    [nr |-> M.nc, nc |-> M.nr,
     v |-> [p \in (1..M.nc) \X (1..M.nr) |-> M.v[<<p[2], p[1]>>]]]

\* np.where(M): the positions of the nonzero entries in row-major order
Where(M) ==
    LET pos == [k \in 1..(M.nr * M.nc) |->
                    <<((k - 1) \div M.nc) + 1, ((k - 1) % M.nc) + 1>>]
    IN  SelectSeq(Arr(pos), LAMBDA p : M.v[p] # 0)

EndpointHitsNoTranspose(M) ==
    LET w == Where(M) IN Arr([k \in DOMAIN w |-> w[k][1]])

\* np.where(M.T)[1]: the hit of every nonzero entry, segment by segment
EndpointHits(M) ==
    LET w == Where(Transpose(M)) IN Arr([k \in DOMAIN w |-> w[k][2]])

\* X[hits]: one row of X per listed hit
Feats(hits) == Arr([k \in DOMAIN hits |-> X[hits[k]]])

\* the keyword arguments of the two plot calls of segment j
SegArgs(alpha, label) ==
    IF alpha THEN [c |-> "k", alpha |-> label] ELSE [c |-> <<"cmap", label>>]

\* ax0.plot([o.z, i.z], [o.r, i.r], '-', **seg_args)
Line0(o, i, args) == [xs |-> <<o[3], i[3]>>, ys |-> <<o[1], i[1]>>, args |-> args]

\* ax1.plot([o.phi, i.phi], [o.r, i.r], '-', **seg_args)
Line1(o, i, args) == [xs |-> <<o[2], i[2]>>, ys |-> <<o[1], i[1]>>, args |-> args]

InitDraw ==
    /\ \E ne \in 0..MaxEdges :
        /\ Ri \in Matrices(Hits, 1..ne)
        /\ Ro \in Matrices(Hits, 1..ne)
    /\ y \in SeqsOf(Labels, 0, MaxEdges)
    /\ alpha_labels \in BOOLEAN
    /\ dr_pc = "idle"
    /\ dr_out = <<>>

IdleDraw ==
    /\ Ri = <<>>
    /\ Ro = <<>>
    /\ y = <<>>
    /\ alpha_labels = TRUE
    /\ dr_pc = "off"
    /\ dr_out = <<>>

\* draw_sample(X, Ri, Ro, y, alpha_labels=...): the loop draws segment j on
\* both panels; feats_o[j] or feats_i[j] past the end of its table raises
\* IndexError and leaves the segments drawn so far.
DrawSample ==
    /\ dr_pc = "idle"
    /\ LET feats_o == Feats(EndpointHits(Ri))
           feats_i == Feats(EndpointHits(Ro))
           drawn == Min(Len(y), Min(Len(feats_o), Len(feats_i)))
       IN  /\ dr_out' =
                [feats_o |-> feats_o,
                 feats_i |-> feats_i,
                 lines0 |-> [j \in 1..drawn |->
                     Line0(feats_o[j], feats_i[j], SegArgs(alpha_labels, y[j]))],
                 lines1 |-> [j \in 1..drawn |->
                     Line1(feats_o[j], feats_i[j], SegArgs(alpha_labels, y[j]))]]
           /\ dr_pc' = IF drawn = Len(y) THEN "returned" ELSE "raised"
    /\ UNCHANGED <<Ri, Ro, y, alpha_labels>>
    /\ UNCHANGED <<lmVars, dlVars, apVars, mVars>>

NextDraw == DrawSample

----------------------------------------------------------------------------
(* Specifications: one per helper.                                         *)

StartLoadModel == InitLoadModel /\ IdleLoader /\ IdleApply /\ IdleMetrics /\ IdleDraw

StartLoader == IdleLoadModel /\ InitLoader /\ IdleApply /\ IdleMetrics /\ IdleDraw

StartApply == IdleLoadModel /\ IdleLoader /\ InitApply /\ IdleMetrics /\ IdleDraw

StartMetrics == IdleLoadModel /\ IdleLoader /\ IdleApply /\ InitMetrics /\ IdleDraw

StartDraw == IdleLoadModel /\ IdleLoader /\ IdleApply /\ IdleMetrics /\ InitDraw

SpecLoadModel == StartLoadModel /\ [][NextLoadModel]_vars

SpecLoader == StartLoader /\ [][NextLoader]_vars

SpecApply == StartApply /\ [][NextApply]_vars

SpecMetrics == StartMetrics /\ [][NextMetrics]_vars

SpecDraw == StartDraw /\ [][NextDraw]_vars

----------------------------------------------------------------------------
(* Properties of get_test_data_loader                                      *)

\* the dataset indices the loader has yielded, in order
YieldedIndices == Concatenate(dl_batches)

\* C1 as stated: for every n_test and L the loader yields exactly the n_test
\* indices L-1, L-2, ..., L-n_test, one per batch, every one inside 0..L-1 and
\* none twice.
C1_LastNTestAlways ==
    dl_pc = "exhausted" =>
        /\ Len(dl_batches) = n_test
        /\ \A k \in 1..Len(dl_batches) : dl_batches[k] = <<ds_len - k>>
        /\ \A k \in 1..Len(dl_batches) : dl_batches[k][1] \in 0..(ds_len - 1)
        /\ Range(YieldedIndices) = (ds_len - n_test)..(ds_len - 1)
        /\ Cardinality(Range(YieldedIndices)) = Len(YieldedIndices)

\* C1 amended: a loader iterated to its end has yielded n_test batches of
\* size 1, batch k holding index L-k (descending from L-1); when n_test <= L
\* the iteration does not raise and these are exactly the indices
\* L-n_test..L-1, every one inside 0..L-1 and none twice.
C1_LastNTestWhenEnough ==
    /\ dl_pc = "raised" => n_test > ds_len
    /\ dl_pc = "exhausted" =>
           /\ Len(dl_batches) = n_test
           /\ \A k \in 1..Len(dl_batches) : dl_batches[k] = <<ds_len - k>>
           /\ n_test <= ds_len =>
               /\ \A k \in 1..Len(dl_batches) : dl_batches[k][1] \in 0..(ds_len - 1)
               /\ Range(YieldedIndices) = (ds_len - n_test)..(ds_len - 1)
               /\ Cardinality(Range(YieldedIndices)) = Len(YieldedIndices)

\* the default n_test = 16 on a dataset longer than that, fully iterated
C1_Witness ==
    /\ dl_pc = "exhausted"
    /\ n_test = DefaultNTest
    /\ ds_len > n_test
    /\ Len(dl_batches) = DefaultNTest

----------------------------------------------------------------------------
(* Properties of apply_model                                               *)

\* C2: once apply_model has returned, preds and targets have one entry per
\* batch of the loader, in the loader's order: entry k is the model's output on
\* batch k's inputs, and batch k's target, each with dimension 0 squeezed.
C2_OnePerBatchInOrder ==
    ap_pc = "returned" =>
        /\ Len(ap_preds) = Len(ap_loader)
        /\ Len(ap_targets) = Len(ap_loader)
        /\ \A k \in 1..Len(ap_loader) :
            /\ ap_preds[k] = Squeeze0(Model(ap_loader[k].inputs))
            /\ ap_targets[k] = Squeeze0(ap_loader[k].target)

\* a returned call on a loader of at least two batches that differ in inputs
\* and in target
C2_Witness ==
    /\ ap_pc = "returned"
    /\ Len(ap_loader) >= 2
    /\ ap_loader[1].inputs # ap_loader[2].inputs
    /\ ap_loader[1].target # ap_loader[2].target
    /\ Len(ap_preds) = Len(ap_loader)

\* C8: gradient tracking is off throughout the call (at every forward pass
\* of the loop), and once the call has returned or raised the mode is the one
\* it was immediately before the call.
C8_NoGradForTheDuration ==
    /\ ap_pc = "loop" => ~grad_enabled
    /\ \A k \in 1..Len(ap_fwd_grad) : ~ap_fwd_grad[k]
    /\ ap_pc \in {"returned", "raised"} => grad_enabled = grad_at_call

\* a call entered with tracking off that raised after two forward passes
C8_Witness ==
    /\ ap_pc = "raised"
    /\ ~grad_at_call
    /\ Len(ap_preds) >= 2
    /\ Len(ap_fwd_grad) > Len(ap_preds)

----------------------------------------------------------------------------
(* Properties of compute_metrics                                           *)

\* the batches of a list in the order perm
Permuted(batches, perm) == [k \in DOMAIN batches |-> batches[perm[k]]]

\* C3: permuting the prediction batches and the target batches jointly
\* leaves every field of the returned Metrics unchanged.
C3_BatchOrderInvariant ==
    m_pc = "returned" =>
        \A perm \in Permutations(DOMAIN m_preds) :
            Metrics(Permuted(m_preds, perm), Permuted(m_targets, perm), m_threshold)
                = m_result

\* a returned call on at least two batches that differ, with a score tied
\* across two batches of different targets
C3_Witness ==
    /\ m_pc = "returned"
    /\ Len(m_preds) >= 2
    /\ m_preds[1] # m_preds[2]
    /\ \E a, b \in DOMAIN m_preds :
        /\ a # b
        /\ m_preds[a][1] = m_preds[b][1]
        /\ m_targets[a][1] # m_targets[b][1]

IsOne(ratio) == ratio[2] # 0 /\ ratio[1] = ratio[2]

\* (pred > threshold) = (target > threshold) for every element, and both
\* classes occur
PerfectlySeparated ==
    LET p == Concatenate(m_preds)
        t == Concatenate(m_targets)
    IN  /\ \A i \in DOMAIN p : (p[i] > m_threshold) = (t[i] > m_threshold)
        /\ \E i \in DOMAIN t : t[i] > m_threshold
        /\ \E i \in DOMAIN t : ~(t[i] > m_threshold)

AllOnes ==
    /\ m_pc = "returned"
    /\ IsOne(m_result.accuracy)
    /\ IsOne(m_result.precision)
    /\ IsOne(m_result.recall)
    /\ IsOne(m_result.roc_auc)

\* C4 as stated: the call with preds=[0.9,0.1] and targets=[1,0] (lists of
\* two numbers) and threshold 0.5 returns accuracy = precision = recall =
\* roc_auc = 1.
C4_ListOfNumbersAllOnes ==
    (/\ m_pc # "idle"
     /\ m_item_ndim = 0
     /\ m_preds = <<9, 1>>
     /\ m_targets = <<10, 0>>
     /\ m_threshold = 5) => AllOnes

\* C4 amended: the call with preds=[[0.9,0.1]] and targets=[[1,0]] (lists of
\* arrays) and threshold 0.5, and every call on lists of arrays whose
\* thresholded predictions equal the thresholded targets with both classes
\* present, returns accuracy = precision = recall = roc_auc = 1.
C4_SeparatedAllOnes ==
    (/\ m_pc # "idle"
     /\ m_item_ndim = 1
     /\ Len(m_preds) > 0
     /\ PerfectlySeparated) => AllOnes

\* the amended example: one batch [0.9, 0.1] against [1, 0] at 0.5
C4_Witness ==
    /\ m_pc = "returned"
    /\ m_item_ndim = 1
    /\ m_preds = << <<9, 1>> >>
    /\ m_targets = << <<10, 0>> >>
    /\ m_threshold = 5
    /\ PerfectlySeparated

\* the curve fields of a Metrics record
Curves(m) ==
    <<m.prc_precision, m.prc_recall, m.prc_thresh,
      m.roc_fpr, m.roc_tpr, m.roc_thresh, m.roc_auc>>

SameTargetLabels(t1, t2) ==
    Greater(Concatenate(m_targets), t1) = Greater(Concatenate(m_targets), t2)

\* C7: two thresholds that binarise the targets alike give the same PR
\* curve, ROC curve and roc_auc, whatever they do to the predictions.
C7_CurvesIgnoreThreshold ==
    m_pc = "returned" =>
        \A t2 \in Thresholds :
            SameTargetLabels(m_threshold, t2) =>
                Curves(Metrics(m_preds, m_targets, t2)) = Curves(m_result)

\* a returned call and a second threshold with the same target labels but
\* other thresholded predictions and another accuracy
C7_Witness ==
    /\ m_pc = "returned"
    /\ \E t2 \in Thresholds :
        /\ t2 # m_threshold
        /\ SameTargetLabels(m_threshold, t2)
        /\ Greater(Concatenate(m_preds), t2) # Greater(Concatenate(m_preds), m_threshold)
        /\ Metrics(m_preds, m_targets, t2).accuracy # m_result.accuracy
        /\ \E i, j \in DOMAIN Concatenate(m_targets) :
            Greater(Concatenate(m_targets), t2)[i] # Greater(Concatenate(m_targets), t2)[j]

----------------------------------------------------------------------------
(* Properties of load_model                                                *)

\* C5: after any call to load_model, returned or raised, the caller's
\* config['model'] equals what it was before the call.
C5_ConfigUntouched == config_model = config_pre

\* C6: every call hands the factory exactly the 'model' mapping it found,
\* less the five training keys, every other key kept with its value; the
\* call reaches the factory whichever of the five keys are present.
C6_FactoryGetsStrippedConfig ==
    \A k \in 1..Len(lm_calls) :
        LET c == lm_calls[k] IN
        /\ DOMAIN c.kwargs = (DOMAIN c.config_in) \ TrainingKeys
        /\ \A key \in DOMAIN c.kwargs : c.kwargs[key] = c.config_in[key]

\* a call on a mapping with some of the five keys present, some absent, and
\* both other keys present
C6_Witness ==
    \E k \in 1..Len(lm_calls) :
        LET c == lm_calls[k] IN
        /\ {"optimizer", "lr_warmup_epochs"} \subseteq DOMAIN c.config_in
        /\ {"learning_rate", "lr_scaling"} \cap DOMAIN c.config_in = {}
        /\ OtherKeys \subseteq DOMAIN c.config_in
        /\ DOMAIN c.kwargs = OtherKeys

\* the model a call builds and loads: the factory's arguments and the
\* checkpoint's epoch
LoadedModel(c) == <<c.kwargs, c.epoch>>

\* C9: every call on one config hands the factory the keyword arguments the
\* first call did, so two calls with the same epoch build and load the same
\* model.
C9_SameKwargsEveryCall ==
    /\ \A k \in 1..Len(lm_calls) : lm_calls[k].kwargs = lm_calls[1].kwargs
    /\ \A i, j \in 1..Len(lm_calls) :
        lm_calls[i].epoch = lm_calls[j].epoch =>
            LoadedModel(lm_calls[i]) = LoadedModel(lm_calls[j])

\* two calls on a config that held training keys, the first raising, the
\* second with the same epoch returning
C9_Witness ==
    /\ Len(lm_calls) >= 2
    /\ (DOMAIN lm_calls[1].config_in) \cap TrainingKeys # {}
    /\ lm_calls[1].outcome = "raised"
    /\ lm_calls[2].outcome = "returned"
    /\ lm_calls[1].epoch = lm_calls[2].epoch
    /\ lm_calls[1].config_in # lm_calls[2].config_in

----------------------------------------------------------------------------
(* Properties of draw_sample                                               *)

OneNonzeroPerColumn(M) ==
    \A j \in 1..M.nc : Cardinality({h \in 1..M.nr : M.v[<<h, j>>] # 0}) = 1

\* the hit of segment j in M
HitOf(M, j) == CHOOSE h \in 1..M.nr : M.v[<<h, j>>] # 0

\* C10: with one nonzero entry in every column of Ri and of Ro and one label
\* per column, draw_sample returns having drawn, on each panel, one line per
\* segment j, from the hit n with Ri[n, j] # 0 to the hit m with
\* Ro[m, j] # 0, styled by y[j]; the endpoint tables have one row per segment.
C10_SegmentsJoinTheirHits ==
    (/\ dr_pc # "idle"
     /\ OneNonzeroPerColumn(Ri)
     /\ OneNonzeroPerColumn(Ro)
     /\ Len(y) = Ri.nc) =>
        /\ dr_pc = "returned"
        /\ Len(dr_out.feats_o) = Ri.nc
        /\ Len(dr_out.feats_i) = Ro.nc
        /\ Len(dr_out.lines0) = Len(y)
        /\ Len(dr_out.lines1) = Len(y)
        /\ \A j \in 1..Len(y) :
            LET n == X[HitOf(Ri, j)]
                m == X[HitOf(Ro, j)]
                style == IF alpha_labels THEN [c |-> "k", alpha |-> y[j]]
                                         ELSE [c |-> <<"cmap", y[j]>>]
            IN  /\ dr_out.lines0[j] =
                    [xs |-> <<n[3], m[3]>>, ys |-> <<n[1], m[1]>>, args |-> style]
                /\ dr_out.lines1[j] =
                    [xs |-> <<n[2], m[2]>>, ys |-> <<n[1], m[1]>>, args |-> style]

\* a returned call on two segments whose hits differ, in Ri and in Ro, with
\* two different labels
C10_Witness ==
    /\ dr_pc = "returned"
    /\ Ri.nc >= 2
    /\ OneNonzeroPerColumn(Ri)
    /\ OneNonzeroPerColumn(Ro)
    /\ Len(y) = Ri.nc
    /\ HitOf(Ri, 1) # HitOf(Ri, 2)
    /\ HitOf(Ri, 1) # HitOf(Ro, 1)
    /\ y[1] # y[2]
    /\ Len(dr_out.lines0) = Len(y)

====
